---- MODULE Spec2Model ----
(***************************************************************************)
(* cloud_proc::Projection<T>::process (include/cloud_proc/projection.h):   *)
(* projection of a point cloud onto an azimuth/elevation grid.             *)
(*                                                                         *)
(* Numbers.  A floating-point value is a pair <<class, n>>: <<"fin", n>>   *)
(* is the finite value n and <<"nan", 0>> a NaN.  Angles are               *)
(* held in units of pi/4, so 2*M_PI is TwoPi = 8 units and                 *)
(* M_PI/2 is HalfPi = 2 units; the input points are taken on the           *)
(* coordinate axes, where atan2 and hypot are exact in these units.        *)
(* Pixel coordinates (u, v, the c_ offsets) are held in 1/Den of a cell    *)
(* and the f_ scales in 1/Den of a cell per angle unit, which makes the    *)
(* default parameters exact.                                               *)
(*                                                                         *)
(* Input.  The input cloud is read-only and process reads each record once,*)
(* in scan order.  The model fixes the geometry of the cloud when it is    *)
(* built and chooses each record when the iterator x_in reaches it:        *)
(* input.data holds the records read so far.                               *)
(***************************************************************************)
EXTENDS Integers, Sequences, FiniteSets, TLC

\* ---------------------------------------------------------------- bounds
\* Largest number of records (height * width) of an input cloud.
MaxPoints == 3

\* ------------------------------------------------------ program constants
KEEP_FIRST == 0
KEEP_LAST == 1
KEEP_CLOSEST == 2
KEEP_FARTHEST == 3

\* 2 * M_PI and M_PI / 2 in angle units of pi/4.
TwoPi == 8
HalfPi == 2

\* Denominator of the fixed-point pixel coordinates.
Den == TwoPi
\* The literal 0.5 of lines 71, 72, 85 and 98.
Half == Den \div 2

\* ------------------------------------------------------------ float values
Fin(n) == <<"fin", n>>
NaN == <<"nan", 0>>

isfinite(f) == f[1] = "fin"
Val(f) == f[2]
Abs(n) == IF n < 0 THEN -n ELSE n

\* std::hypot on integers whose hypotenuse is an integer.
hypot(a, b) == CHOOSE r \in 0..(Abs(a) + Abs(b)) : r * r = a * a + b * b

\* std::atan2(y, x) in units of pi/4, for the directions where it is exact.
atan2(y, x) ==
  CASE y = 0 /\ x >= 0 -> 0
    [] y = 0 /\ x < 0 -> 4
    [] x = 0 /\ y > 0 -> 2
    [] x = 0 /\ y < 0 -> -2
    [] x > 0 /\ y = x -> 1
    [] x < 0 /\ y = -x -> 3
    [] x < 0 /\ y = x -> -3
    [] x > 0 /\ y = -x -> -1

is_point_valid(x, y, z) ==
  /\ isfinite(x) /\ isfinite(y) /\ isfinite(z)
  /\ (x # Fin(0) \/ y # Fin(0) \/ z # Fin(0))

azimuth(x, y, z) == atan2(Val(y), Val(x))

elevation(x, y, z) == atan2(Val(z), hypot(Val(x), Val(y)))

\* ------------------------------------------------------------ point records
\* A record of point_step bytes: the three coordinate fields and the rest of
\* the record (the other fields), which process never interprets.
Point(x, y, z, rest) == [x |-> x, y |-> y, z |-> z, rest |-> rest]

\* The record whose bytes are all zero.
ZeroPoint == Point(Fin(0), Fin(0), Fin(0), 0)

\* The records the input clouds are made of: two degenerate ones, and three
\* returns of which two lie at the same range and one behind the sensor.
InputPoints ==
  { Point(Fin(0), Fin(0), Fin(0), 1),
    Point(NaN, Fin(1), Fin(1), 2),
    Point(Fin(1), Fin(0), Fin(0), 3),
    Point(Fin(-2), Fin(0), Fin(0), 4),
    Point(Fin(0), Fin(0), Fin(1), 5) }

\* sensor_msgs::PointCloud2.  layout stands for the members fields,
\* is_bigendian and is_dense, which process copies and never reads.  The
\* sizes are naturals far below 2^32, the range of the uint32 members.
Cloud(header, layout, h, w, ps, rs, data) ==
  [header |-> header, layout |-> layout, height |-> h, width |-> w,
   point_step |-> ps, row_step |-> rs, data |-> data]

Shapes == {s \in (1..MaxPoints) \X (1..MaxPoints) : s[1] * s[2] <= MaxPoints}

\* Clouds that satisfy the input preconditions.
WellFormedClouds == { Cloud("in", "xyz+rest", s[1], s[2], 16, s[2] * 16, <<>>) : s \in Shapes }

\* Clouds that violate one: no rows, no columns, or padded rows.
MalformedClouds ==
  { Cloud("in", "xyz+rest", 0, 1, 16, 16, <<>>),
    Cloud("in", "xyz+rest", 1, 0, 16, 0, <<>>),
    Cloud("in", "xyz+rest", 1, 1, 16, 32, <<>>) }

InputClouds == WellFormedClouds \cup MalformedClouds

\* The output cloud as the caller hands it in: a cloud left by an earlier use.
PriorOutput == Cloud("old", "other", 1, 1, 16, 16, <<Point(Fin(3), Fin(0), Fin(0), 7)>>)

\* Values a caller gives the public members.
ConfigHeights == {0, 2}
ConfigWidths == {0, 1}
ConfigParams ==
  { [f_az |-> NaN, c_az |-> NaN, f_el |-> NaN, c_el |-> NaN],
    [f_az |-> Fin(0), c_az |-> Fin(4), f_el |-> Fin(-4), c_el |-> Fin(4)] }

VARIABLES height_, width_, f_azimuth_, f_elevation_, c_azimuth_, c_elevation_,
          keep_, azimuth_only_, input, output, i_in, j_in, pc, access, copies

config == <<height_, width_, f_azimuth_, f_elevation_, c_azimuth_,
            c_elevation_, keep_, azimuth_only_>>
vars == <<config, input, output, i_in, j_in, pc, access, copies>>

\* What the last pass of the loop body did to the output buffer.
NoAccess == [i_out |-> 0, j_out |-> 0, read |-> FALSE, copy |-> FALSE]

\* A Projection as constructed (lines 41-48), an input cloud, the output cloud.
Init ==
  /\ height_ = 0
  /\ width_ = 0
  /\ f_azimuth_ = NaN
  /\ f_elevation_ = NaN
  /\ c_azimuth_ = NaN
  /\ c_elevation_ = NaN
  /\ keep_ = KEEP_LAST
  /\ azimuth_only_ = FALSE
  /\ input \in InputClouds
  /\ output = PriorOutput
  /\ i_in = 0
  /\ j_in = 0
  /\ pc = "new"
  /\ access = NoAccess
  /\ copies = 0

\* The caller sets the public members before the call.
Configure ==
  /\ pc = "new"
  /\ pc' = "idle"
  /\ height_' \in ConfigHeights
  /\ width_' \in ConfigWidths
  /\ \E p \in ConfigParams :
       /\ f_azimuth_' = p.f_az
       /\ c_azimuth_' = p.c_az
       /\ f_elevation_' = p.f_el
       /\ c_elevation_' = p.c_el
  /\ keep_' \in {KEEP_FIRST, KEEP_LAST, KEEP_CLOSEST, KEEP_FARTHEST}
  /\ azimuth_only_' \in BOOLEAN
  /\ UNCHANGED <<input, output, i_in, j_in, access, copies>>

\* Lines 52-54.
InputPreconditions ==
  /\ input.height >= 1
  /\ input.width >= 1
  /\ input.row_step = input.width * input.point_step

CheckInput ==
  /\ pc \in {"new", "idle"}
  /\ pc' = IF InputPreconditions THEN "resolve" ELSE "aborted"
  /\ UNCHANGED <<config, input, output, i_in, j_in, access, copies>>

\* Line 56 without the fallback to the input height for height_ = 0.
ResolvedHeight_NoFallback == IF azimuth_only_ THEN input.height ELSE height_

\* Line 56 with the configured height used in azimuth-only mode too.
ResolvedHeight_IgnoresAzimuthOnly == IF height_ = 0 THEN input.height ELSE height_

\* Line 56.
ResolvedHeight == IF azimuth_only_ \/ height_ = 0 THEN input.height ELSE height_

\* Line 58 with the fallback taken from the input height.
ResolvedWidth_FromHeight == IF width_ = 0 THEN input.height ELSE width_

\* Line 58.
ResolvedWidth == IF width_ = 0 THEN input.width ELSE width_

\* Lines 55-59.
Resolve ==
  /\ pc = "resolve"
  /\ IF ResolvedHeight >= 1
     THEN /\ output' = [output EXCEPT !.header = input.header,
                                      !.height = ResolvedHeight,
                                      !.width = ResolvedWidth]
          /\ pc' = IF ResolvedWidth >= 1 THEN "alloc" ELSE "aborted"
     ELSE /\ output' = [output EXCEPT !.header = input.header,
                                      !.height = ResolvedHeight]
          /\ pc' = "aborted"
  /\ UNCHANGED <<config, input, i_in, j_in, access, copies>>

\* Line 64 left out: the buffer keeps what it held.
Cleared_Stale(data) == data

\* Line 64: std::vector::clear.
Cleared(data) == <<>>

\* Line 66: std::vector::resize(n, 0) on a buffer of records of ps bytes.
Resized(data, n, ps) ==
  [k \in 1..(n \div ps) |-> IF k <= Len(data) THEN data[k] ELSE ZeroPoint]

\* Lines 60-67.
Allocate ==
  /\ pc = "alloc"
  /\ LET ps == input.point_step
         rs == output.width * ps
     IN output' = [output EXCEPT
                     !.layout = input.layout,
                     !.point_step = ps,
                     !.row_step = rs,
                     !.data = Resized(Cleared(output.data),
                                      output.height * output.width * ps, ps)]
  /\ pc' = "scan"
  /\ i_in' = 0
  /\ j_in' = 0
  /\ UNCHANGED <<config, input, access, copies>>

\* Lines 69-72: the mapping constants, fixed once the output geometry is.
f_azimuth ==
  IF isfinite(f_azimuth_) /\ f_azimuth_ # Fin(0)
  THEN Val(f_azimuth_) ELSE -((output.width * Den) \div TwoPi)

f_elevation ==
  IF isfinite(f_elevation_) /\ f_elevation_ # Fin(0)
  THEN Val(f_elevation_) ELSE -((output.height * Den) \div HalfPi)

c_azimuth ==
  IF isfinite(c_azimuth_) THEN Val(c_azimuth_)
  ELSE (output.width * Den) \div 2 - Half

c_elevation ==
  IF isfinite(c_elevation_) THEN Val(c_elevation_)
  ELSE (output.height * Den) \div 2 - Half

\* Lines 83-85; a NaN coordinate makes the angle, and so u, a NaN.
U(p) ==
  IF isfinite(p.x) /\ isfinite(p.y)
  THEN Fin(f_azimuth * azimuth(p.x, p.y, p.z) + c_azimuth + Half)
  ELSE NaN

\* Lines 97-98.
V(p) ==
  IF isfinite(p.x) /\ isfinite(p.y) /\ isfinite(p.z)
  THEN Fin(f_elevation * elevation(p.x, p.y, p.z) + c_elevation + Half)
  ELSE NaN

\* Line 87: the point lies outside the image.
OutsideWidth(u) == ~isfinite(u) \/ Val(u) < 0 \/ Val(u) >= output.width * Den

\* Line 99.
OutsideHeight(v) == ~isfinite(v) \/ Val(v) < 0 \/ Val(v) >= output.height * Den

\* Lines 89 and 101: conversion of a pixel coordinate to size_t.
ToIndex(u) == Val(u) \div Den

\* Lines 80-102 for the record p read in input row i: where the point goes,
\* or that it is dropped.
Dropped == [hit |-> FALSE, i_out |-> 0, j_out |-> 0]

\* Lines 80-102 without the validity check of lines 80-81.
Target_NoValidityCheck(p, i) ==
  IF OutsideWidth(U(p)) THEN Dropped
  ELSE IF azimuth_only_ THEN [hit |-> TRUE, i_out |-> i, j_out |-> ToIndex(U(p))]
  ELSE IF OutsideHeight(V(p)) THEN Dropped
  ELSE [hit |-> TRUE, i_out |-> ToIndex(V(p)), j_out |-> ToIndex(U(p))]

\* Lines 80-102 with the row always taken from the elevation.
Target_AlwaysElevation(p, i) ==
  IF ~is_point_valid(p.x, p.y, p.z) THEN Dropped
  ELSE IF OutsideWidth(U(p)) THEN Dropped
  ELSE IF OutsideHeight(V(p)) THEN Dropped
  ELSE [hit |-> TRUE, i_out |-> ToIndex(V(p)), j_out |-> ToIndex(U(p))]

Target(p, i) ==
  IF ~is_point_valid(p.x, p.y, p.z) THEN Dropped
  ELSE IF OutsideWidth(U(p)) THEN Dropped
  ELSE IF azimuth_only_ THEN [hit |-> TRUE, i_out |-> i, j_out |-> ToIndex(U(p))]
  ELSE IF OutsideHeight(V(p)) THEN Dropped
  ELSE [hit |-> TRUE, i_out |-> ToIndex(V(p)), j_out |-> ToIndex(U(p))]

\* Lines 116 and 124: hypot(hypot(x, y), z).
Range(p) == hypot(hypot(Val(p.x), Val(p.y)), Val(p.z))

\* Lines 107-108 with the occupancy test lost.
FirstSkips_Never(x_out) == FALSE

\* Lines 107-108.
FirstSkips(x_out) == is_point_valid(x_out.x, x_out.y, x_out.z)

\* Lines 114-117 with < for <= (the comparison of the commented-out line 115).
ClosestSkips_Strict(x_out, x_in) ==
  is_point_valid(x_out.x, x_out.y, x_out.z) /\ Range(x_out) < Range(x_in)

\* Lines 114-117.
ClosestSkips(x_out, x_in) ==
  is_point_valid(x_out.x, x_out.y, x_out.z) /\ Range(x_out) <= Range(x_in)

\* Lines 122-125 with > for >=.
FarthestSkips_Strict(x_out, x_in) ==
  is_point_valid(x_out.x, x_out.y, x_out.z) /\ Range(x_out) > Range(x_in)

\* Lines 122-125.
FarthestSkips(x_out, x_in) ==
  is_point_valid(x_out.x, x_out.y, x_out.z) /\ Range(x_out) >= Range(x_in)

\* Lines 104-126: does the policy read the target pixel, and does it skip.
PolicyReads(keep) == keep \in {KEEP_FIRST, KEEP_CLOSEST, KEEP_FARTHEST}

\* Lines 104-126 with the farthest test as the final else of the chain.
PolicySkips_ElseFarthest(keep, x_out, x_in) ==
  IF keep = KEEP_FIRST THEN FirstSkips(x_out)
  ELSE IF keep = KEEP_CLOSEST THEN ClosestSkips(x_out, x_in)
  ELSE FarthestSkips(x_out, x_in)

PolicySkips(keep, x_out, x_in) ==
  \/ (IF keep = KEEP_FIRST THEN FirstSkips(x_out)
      ELSE IF keep = KEEP_CLOSEST THEN ClosestSkips(x_out, x_in)
      ELSE FALSE)
  \/ (keep = KEEP_FARTHEST /\ FarthestSkips(x_out, x_in))

\* Lines 74 and 78: the record the input iterator x_in is at.
InputIndex(i, j) == i * input.width + j + 1

\* Lines 106, 113, 121: x_out_begin + i_out * output.width + j_out.
OutputIndex(i, j) == i * output.width + j + 1

\* Lines 129-130: the source of the copy, as a record index.
CopySource(i, j) == (i * input.row_step + j * input.point_step) \div input.point_step + 1

\* Line 131: the destination of the copy, as a record index.
CopyDest(i, j) == (i * output.row_step + j * output.point_step) \div output.point_step + 1

\* A read or a write of the output buffer at record index k lies in it.
InBuffer(k) == k \in 1..Len(output.data)

\* Lines 76-134: one pass of the loop body on the record x_in, the loop
\* increments, and the return after the last record.  A read outside the
\* buffer yields any value and a write outside it is lost or not.
ScanPoint ==
  /\ pc = "scan"
  /\ \E x_in \in InputPoints :
       LET data == Append(input.data, x_in)
           t == Target(x_in, i_in)
           k == OutputIndex(t.i_out, t.j_out)
           d == CopyDest(t.i_out, t.j_out)
           reads == t.hit /\ PolicyReads(keep_)
       IN /\ Len(data) = InputIndex(i_in, j_in)
          /\ input' = [input EXCEPT !.data = data]
          /\ \E x_out \in (IF InBuffer(k) THEN {output.data[k]} ELSE {ZeroPoint, x_in}) :
               LET copy == t.hit /\ ~PolicySkips(keep_, x_out, x_in)
               IN /\ output' = IF copy /\ InBuffer(d)
                               THEN [output EXCEPT !.data[d] = data[CopySource(i_in, j_in)]]
                               ELSE output
                  /\ access' = IF t.hit
                               THEN [i_out |-> t.i_out, j_out |-> t.j_out,
                                     read |-> reads, copy |-> copy]
                               ELSE NoAccess
                  /\ copies' = IF copy THEN copies + 1 ELSE copies
  /\ IF j_in + 1 < input.width
     THEN i_in' = i_in /\ j_in' = j_in + 1 /\ pc' = "scan"
     ELSE /\ i_in' = i_in + 1
          /\ j_in' = 0
          /\ pc' = IF i_in + 1 < input.height THEN "scan" ELSE "done"
  /\ UNCHANGED config

Next ==
  \/ Configure
  \/ CheckInput
  \/ Resolve
  \/ Allocate
  \/ ScanPoint

Spec == Init /\ [][Next]_vars
\* ------------------------------------------------------------------ claims
\* The output grid, once allocated, and the record held by a cell.
Allocated == pc \in {"scan", "done"}

Cells == (0..(output.height - 1)) \X (0..(output.width - 1))

OutAt(r, c) == output.data[r * output.width + c + 1]

\* The input records read so far, by index in scan order, and their rows.
Scanned == 1..Len(input.data)

RowOf(k) == (k - 1) \div input.width

IsValid(p) == is_point_valid(p.x, p.y, p.z)

ColumnInRange(p) ==
  LET u == U(p) IN isfinite(u) /\ Val(u) >= 0 /\ Val(u) < output.width * Den

RowInRange(p) ==
  LET v == V(p) IN isfinite(v) /\ Val(v) >= 0 /\ Val(v) < output.height * Den

\* The valid input point k projects to cell (r, c): its column u lies in
\* [0, output.width) with floor(u) = c, and its row (the input row in
\* azimuth-only mode, floor(v) with v in [0, output.height) otherwise) is r.
ProjectsTo(k, r, c) ==
  LET p == input.data[k]
      u == U(p)
      v == V(p)
  IN /\ IsValid(p)
     /\ azimuth_only_ => r = RowOf(k)
     /\ isfinite(u) /\ Val(u) >= 0 /\ Val(u) < output.width * Den
     /\ Val(u) \div Den = c
     /\ ~azimuth_only_ =>
          /\ isfinite(v) /\ Val(v) >= 0 /\ Val(v) < output.height * Den
          /\ Val(v) \div Den = r

Contributors(r, c) == {k \in Scanned : ProjectsTo(k, r, c)}

Earliest(S) == CHOOSE k \in S : \A m \in S : k <= m

Latest(S) == CHOOSE k \in S : \A m \in S : k >= m

Closest(S) == {k \in S : \A m \in S : Range(input.data[k]) <= Range(input.data[m])}

Farthest(S) == {k \in S : \A m \in S : Range(input.data[k]) >= Range(input.data[m])}

\* C1: from the allocation of the output grid on, every output cell is all
\* zero or equals the full record of a valid input point that projects to
\* that cell; no degenerate point ((0,0,0) or a non-finite coordinate) is
\* ever held by a cell.
C1_CellIsZeroOrValidInput ==
  Allocated =>
    \A cell \in Cells :
      \/ OutAt(cell[1], cell[2]) = ZeroPoint
      \/ \E k \in Contributors(cell[1], cell[2]) :
           input.data[k] = OutAt(cell[1], cell[2])

C1_Witness ==
  /\ pc = "done"
  /\ \E cell \in Cells : OutAt(cell[1], cell[2]) # ZeroPoint
  /\ \E k \in Scanned : input.data[k].x = Fin(0) /\ ~IsValid(input.data[k])
  /\ \E k \in Scanned : ~isfinite(input.data[k].x)

\* C2: with KEEP_CLOSEST, after the return, a cell with contributors holds
\* the earliest in scan order of its contributors of smallest range; so a
\* contributor strictly closer than all others is held wherever it stands in
\* the input.
C2_KeepClosest ==
  (pc = "done" /\ keep_ = KEEP_CLOSEST) =>
    \A cell \in Cells :
      LET S == Contributors(cell[1], cell[2])
      IN /\ S # {} => OutAt(cell[1], cell[2]) = input.data[Earliest(Closest(S))]
         /\ \A k \in S :
              (\A m \in S \ {k} : Range(input.data[k]) < Range(input.data[m])) =>
                OutAt(cell[1], cell[2]) = input.data[k]

\* A cell where a closer point came after a farther one and was followed by
\* a different point at the same range.
C2_Witness ==
  /\ pc = "done"
  /\ keep_ = KEEP_CLOSEST
  /\ \E cell \in Cells :
       \E k1, k2, k3 \in Contributors(cell[1], cell[2]) :
         /\ k1 < k2 /\ k2 < k3
         /\ Range(input.data[k1]) > Range(input.data[k2])
         /\ Range(input.data[k2]) = Range(input.data[k3])
         /\ input.data[k2] # input.data[k3]

\* C3: with KEEP_FARTHEST, after the return, a cell with contributors holds
\* the earliest in scan order of its contributors of largest range.
C3_KeepFarthest ==
  (pc = "done" /\ keep_ = KEEP_FARTHEST) =>
    \A cell \in Cells :
      LET S == Contributors(cell[1], cell[2])
      IN S # {} => OutAt(cell[1], cell[2]) = input.data[Earliest(Farthest(S))]

\* A cell where a farther point came after a closer one and was followed by
\* a closer one again.
C3_Witness ==
  /\ pc = "done"
  /\ keep_ = KEEP_FARTHEST
  /\ \E cell \in Cells :
       \E k1, k2, k3 \in Contributors(cell[1], cell[2]) :
         /\ k1 < k2 /\ k2 < k3
         /\ Range(input.data[k1]) < Range(input.data[k2])
         /\ Range(input.data[k2]) > Range(input.data[k3])

\* C4: with KEEP_FIRST, at every point of the scan and after the return, a
\* cell with contributors among the points read so far holds the first of
\* them in row-major scan order, whatever the ranges; and a step never
\* changes a cell that holds a valid point.
C4_FirstHeld ==
  (Allocated /\ keep_ = KEEP_FIRST) =>
    \A cell \in Cells :
      LET S == Contributors(cell[1], cell[2])
      IN S # {} => OutAt(cell[1], cell[2]) = input.data[Earliest(S)]

C4_NeverOverwritten ==
  (pc = "scan" /\ keep_ = KEEP_FIRST) =>
    \A cell \in Cells :
      IsValid(OutAt(cell[1], cell[2])) =>
        output'.data[cell[1] * output.width + cell[2] + 1] = OutAt(cell[1], cell[2])

C4_KeepFirst == [](C4_FirstHeld) /\ [][C4_NeverOverwritten]_vars

\* A cell whose first contributor is farther than a later one, of a later
\* input row, and is followed by a third.
C4_Witness ==
  /\ pc = "done"
  /\ keep_ = KEEP_FIRST
  /\ \E cell \in Cells :
       \E k1, k2, k3 \in Contributors(cell[1], cell[2]) :
         /\ k1 < k2 /\ k2 < k3
         /\ RowOf(k1) < RowOf(k2)
         /\ Range(input.data[k1]) > Range(input.data[k2])

\* C5: keep_ is KEEP_LAST in a Projection as constructed; with KEEP_LAST, at
\* every point of the scan and after the return, a cell with contributors
\* among the points read so far holds the last of them in scan order,
\* whatever the ranges.
C5_KeepLast ==
  /\ pc = "new" => keep_ = KEEP_LAST
  /\ (Allocated /\ keep_ = KEEP_LAST) =>
       \A cell \in Cells :
         LET S == Contributors(cell[1], cell[2])
         IN S # {} => OutAt(cell[1], cell[2]) = input.data[Latest(S)]

\* A cell whose last contributor is neither its first, nor its farthest, nor
\* the earliest of its closest.
C5_Witness ==
  /\ pc = "done"
  /\ keep_ = KEEP_LAST
  /\ \E cell \in Cells :
       \E k1, k2, k3 \in Contributors(cell[1], cell[2]) :
         /\ k1 < k2 /\ k2 < k3
         /\ Range(input.data[k1]) < Range(input.data[k2])
         /\ Range(input.data[k2]) > Range(input.data[k3])
         /\ input.data[k1] # input.data[k3]

C7_AzimuthOnlyRows ==
  (Allocated /\ azimuth_only_) =>
    /\ access.copy => access.i_out = RowOf(Len(input.data))
    /\ \A k \in Scanned :
         (IsValid(input.data[k]) /\ ColumnInRange(input.data[k])) =>
           /\ RowOf(k) < output.height
           /\ OutAt(RowOf(k), Val(U(input.data[k])) \div Den) # ZeroPoint
    /\ \A cell \in Cells :
         OutAt(cell[1], cell[2]) # ZeroPoint =>
           \E k \in Scanned :
             RowOf(k) = cell[1] /\ input.data[k] = OutAt(cell[1], cell[2])

\* A point of a later input row whose elevation is out of range, in its cell.
C7_Witness ==
  /\ pc = "done"
  /\ azimuth_only_
  /\ \E k \in Scanned :
       /\ RowOf(k) >= 1
       /\ IsValid(input.data[k])
       /\ ColumnInRange(input.data[k])
       /\ ~RowInRange(input.data[k])
       /\ OutAt(RowOf(k), Val(U(input.data[k])) \div Den) = input.data[k]

\* C8: a call that aborts has failed an input precondition and has left the
\* output cloud as it was; a call that gets past the checks has a resolved
\* height and width of at least 1 and runs on.
C8_AbortBeforeMutation ==
  /\ pc = "aborted" => (output = PriorOutput /\ ~InputPreconditions)
  /\ pc \in {"resolve", "alloc", "scan", "done"} => InputPreconditions
  /\ pc \in {"alloc", "scan", "done"} => (output.height >= 1 /\ output.width >= 1)

C8_Witness ==
  /\ pc = "aborted"
  /\ input.height >= 1
  /\ height_ # 0

\* C9: after the return, a cell is non-zero exactly if a valid input point
\* projects to it, whatever the output held before the call, and a cell with
\* a contributor holds a valid point.
C9_ZeroIffNoContributor ==
  pc = "done" =>
    \A cell \in Cells :
      /\ (OutAt(cell[1], cell[2]) # ZeroPoint) <=> (Contributors(cell[1], cell[2]) # {})
      /\ Contributors(cell[1], cell[2]) # {} => IsValid(OutAt(cell[1], cell[2]))

\* The first cell of the buffer, which held a point before the call, is
\* empty and another cell is not.
C9_Witness ==
  /\ pc = "done"
  /\ IsValid(PriorOutput.data[1])
  /\ Contributors(0, 0) = {}
  /\ \E cell \in Cells : Contributors(cell[1], cell[2]) # {}

====
